---- MODULE Spec2Model ----
(***************************************************************************)
(* Guest-memory slot management of the HAXM virtual machine handle         *)
(* (hypervisor/src/haxm/vm.rs).  Every clone of the handle runs on its own *)
(* thread; the slot table (mem_regions) and the gap heap (mem_slot_gaps)   *)
(* are shared behind one mutex each.  A call is modelled statement by      *)
(* statement at the places where it takes a lock or talks to the driver,   *)
(* so that interleavings of concurrent calls are part of the state space.  *)
(***************************************************************************)
EXTENDS Integers, Sequences, FiniteSets, TLC

VARIABLES
    handles,        \* the HaxmVm handles that exist (the first one and its clones)
    pc,             \* handle -> position of the call running on it
    call,           \* handle -> arguments and locals of the call running on it
    ret,            \* what the call that returned in the last step returned
    mem_regions,    \* slot -> (guest_addr, mem): HaxmVm.mem_regions
    mem_slot_gaps,  \* HaxmVm.mem_slot_gaps: min-heap, kept as an ascending sequence
    regions_lock,   \* holder of the mem_regions mutex, 0 when free
    gaps_lock,      \* holder of the mem_slot_gaps mutex, 0 when free
    driver_ram,     \* guest address -> host va: what the driver has mapped
    ioevents,       \* handle -> (address -> event): HaxmVm.ioevents
    event_pending,  \* event object -> its counter is not 0: set by Event::write
    fd_maps,        \* host mappings (by ptr) that have a file mapped into them
    vcpu_fds,       \* vCPU ids whose device descriptor is open
    driver_vcpus,   \* vCPU ids the driver has created
    live,           \* history: slot -> arguments of the successful add returning it
    unmap_ok,       \* history: slot -> successful driver unmaps since that add
    bar_ranges,     \* the BAR ranges of the devices behind the PCI bridge
    bridge_window   \* what configure_bridge_window did last with those ranges

vars == <<handles, pc, call, ret, mem_regions, mem_slot_gaps, regions_lock,
          gaps_lock, driver_ram, ioevents, event_pending, fd_maps, vcpu_fds,
          driver_vcpus, live, unmap_ok, bar_ranges, bridge_window>>

----------------------------------------------------------------------------
(* Bounds of the model *)

\* width of a guest address in bits (u64 in the source, scaled down)
AddrBits == 4
\* number of distinct host mappings callers can hold
MaxMem == 2
\* number of handles (the original and its clones)
MaxHandles == 2

AddrMax == 2^AddrBits - 1

----------------------------------------------------------------------------
(* Values *)

None == -1

NoMem == [ptr |-> 0, size |-> 0]

\* Option::None of a slot table lookup
NoEntry == [guest_addr |-> None, mem |-> NoMem]

NoLive == [guest_addr |-> None, mem |-> NoMem]

\* host mappings (Box<dyn MappedRegion>): as_ptr() and size(); sizes alternate 1, 2
Mems == {[ptr |-> 10 * i, size |-> 1 + ((i - 1) % 2)] : i \in 1..MaxMem}

\* the static guest memory layout given to HaxmVm::new
GuestMemRegions == <<[guest_base |-> 0, size |-> 2, host_addr |-> 100]>>

num_regions == Len(GuestMemRegions)

\* guest addresses callers pass to add_memory_region
GuestAddrs == {1, 2, AddrMax - 1, AddrMax}

\* slots callers pass to remove_memory_region
SlotArgs == num_regions..(num_regions + MaxMem - 1)

\* errno values the driver's ioctl can leave behind
DriverErrnos == {"ENOMEM", "EINVAL"}

DriverResults == {"Ok"} \cup DriverErrnos

\* the event objects callers create; an Event value is one descriptor of an object
Events == {1, 2}

NoEvent == [obj |-> 0, fd |-> 0]

\* the descriptors callers pass to register_ioevent / unregister_ioevent
CallerEvents == {[obj |-> o, fd |-> o] : o \in Events}

\* Event::try_clone: another descriptor, fd, of the same event object
EventTryClone(evt, fd) == [obj |-> evt.obj, fd |-> fd]

\* Event == Event: two descriptors are equal when they name one event object
EventEq(a, b) == a.obj = b.obj

\* what a failing Event::write returns
WriteErrnos == {"EAGAIN"}

\* IoEventAddress::Pio(x) / IoEventAddress::Mmio(x)
Pio(x) == [kind |-> "Pio", addr |-> x]

Mmio(x) == [kind |-> "Mmio", addr |-> x]

NoIoAddr == [kind |-> "none", addr |-> 0]

\* the addresses calls are made with: one number as a port and as an MMIO address
IoAddrs == {Pio(1), Mmio(1)}

\* the descriptor the system hands out for the copy handle h keeps at addr: no
\* two descriptors in use are the same number
NewFd(h, addr) == 100 * h + (IF addr.kind = "Pio" THEN 10 ELSE 20) + addr.addr

\* Datamatch values: AnyLength and one other, U8(None)
Datamatches == {"AnyLength", "U8"}

NoCall == [guest_addr |-> 0, mem |-> NoMem, slot |-> None,
           minted |-> FALSE, res |-> "none",
           pre_regions |-> <<>>, pre_gaps |-> <<>>, pre_ram |-> <<>>]

\* op, h, res, slot, mem: the call that returned, on which handle, and its result;
\* drv: what the driver answered in it ("none": it was not called; for
\* create_vcpu the step it stopped at); was_live,
\* added: the entry of live for the slot when the call returned; pre_issued: the
\* slots successful adds had returned before; pre_*: the shared state when the
\* call took the table lock (or ran its checks, if it took none); addr, evt,
\* datamatch: the arguments of an io-event call; pre_ioevents: the handle's
\* ioevents when it began; written: the event objects it wrote to, in order;
\* pre_all, pre_pending: every handle's ioevents and event_pending when it
\* began; pre_fd_maps, pre_vcpu_fds: fd_maps and vcpu_fds when it began
NoRet == [op |-> "none", h |-> 0, res |-> "none", slot |-> None, mem |-> NoMem,
          drv |-> "none", guest_addr |-> 0, minted |-> FALSE,
          was_live |-> FALSE, added |-> NoLive, pre_issued |-> {},
          addr |-> NoIoAddr, evt |-> NoEvent, datamatch |-> "none",
          pre_ioevents |-> <<>>, written |-> <<>>,
          pre_all |-> <<>>, pre_pending |-> <<>>,
          pre_fd_maps |-> {}, pre_vcpu_fds |-> {},
          pre_regions |-> <<>>, pre_gaps |-> <<>>, pre_ram |-> <<>>]

----------------------------------------------------------------------------
(* Pure helpers *)

\* faulty variant: a range that ends exactly at the top of the address space
\* is let through
checked_add_EndAtTop(addr, size) ==
    IF addr + size > AddrMax + 1 THEN None ELSE addr + size

\* GuestAddress::checked_add: None when the sum does not fit the address width
checked_add(addr, size) == IF addr + size > AddrMax THEN None ELSE addr + size

\* GuestMemory::range_overlap(start, end)
range_overlap(start, end) ==
    \E i \in 1..Len(GuestMemRegions) :
        /\ GuestMemRegions[i].guest_base < end
        /\ start < GuestMemRegions[i].guest_base + GuestMemRegions[i].size

\* BinaryHeap<Reverse<MemSlot>>::push
HeapPush(heap, x) ==
    LET lo == SelectSeq(heap, LAMBDA y : y <= x)
        hi == SelectSeq(heap, LAMBDA y : y > x)
    IN  lo \o <<x>> \o hi

\* BinaryHeap<Reverse<MemSlot>>::pop: the smallest slot, None when empty
HeapPeek(heap) == IF heap = <<>> THEN None ELSE Head(heap)

HeapPop(heap) == IF heap = <<>> THEN heap ELSE Tail(heap)

\* the guest addresses of [guest_addr, guest_addr + size)
Range(guest_addr, size) == guest_addr..(guest_addr + size - 1)

\* BTreeMap::insert
MapInsert(map, key, value) ==
    [k \in DOMAIN map \cup {key} |-> IF k = key THEN value ELSE map[k]]

\* BTreeMap::remove
MapRemove(map, key) == [k \in DOMAIN map \ {key} |-> map[k]]

----------------------------------------------------------------------------
(* The driver: HAX_VM_IOCTL_SET_RAM2 *)

\* enum MemoryRegionOp
OpAdd(va) == [tag |-> "Add", va |-> va]

OpRemove == [tag |-> "Remove", va |-> 0]

\* the hax_set_ram_info2 that set_user_memory_region builds
RamInfo(read_only, guest_addr, size, op) ==
    LET va    == IF op.tag = "Add" THEN op.va ELSE 0
        flags == IF op.tag = "Add"
                 THEN {"HAX_RAM_INFO_STANDALONE"}
                      \cup (IF read_only THEN {"HAX_RAM_INFO_ROM"} ELSE {})
                 ELSE {"HAX_RAM_INFO_INVALID"}
    IN  [pa_start |-> guest_addr, size |-> size, va |-> va, flags |-> flags]

\* what a successful ioctl does to the driver's view of guest memory: an INVALID
\* request unmaps the guest range, any other maps the range at va
HaxSetRam2(ram, info) ==
    LET range == Range(info.pa_start, info.size)
    IN  IF "HAX_RAM_INFO_INVALID" \in info.flags
        THEN [a \in DOMAIN ram \ range |-> ram[a]]
        ELSE [a \in DOMAIN ram \cup range |->
                 IF a \in range
                 THEN [va |-> info.va + (a - info.pa_start)]
                 ELSE ram[a]]

\* set_user_memory_region: the driver's view after the call, given the ioctl's
\* outcome r ("Ok", or the errno that errno_result() reports)
set_user_memory_region(ram, read_only, guest_addr, size, op, r) ==
    IF r = "Ok" THEN HaxSetRam2(ram, RamInfo(read_only, guest_addr, size, op))
    ELSE ram

----------------------------------------------------------------------------
(* Initial state: HaxmVm::new has succeeded *)

\* the guest_mem.with_regions loop of HaxmVm::new
StaticRam ==
    LET Map[i \in 0..Len(GuestMemRegions)] ==
            IF i = 0 THEN <<>>
            ELSE set_user_memory_region(Map[i - 1], FALSE,
                     GuestMemRegions[i].guest_base, GuestMemRegions[i].size,
                     OpAdd(GuestMemRegions[i].host_addr), "Ok")
    IN  Map[Len(GuestMemRegions)]

Init ==
    /\ handles = {1}
    /\ pc = (1 :> "idle")
    /\ call = (1 :> NoCall)
    /\ ret = NoRet
    /\ mem_regions = <<>>
    /\ mem_slot_gaps = <<>>
    /\ regions_lock = 0
    /\ gaps_lock = 0
    /\ driver_ram = StaticRam
    /\ ioevents = (1 :> <<>>)
    /\ event_pending = [o \in Events |-> FALSE]
    /\ fd_maps = {}
    /\ vcpu_fds = {}
    /\ driver_vcpus = {}
    /\ live = <<>>
    /\ unmap_ok = <<>>
    /\ bar_ranges = <<>>
    /\ bridge_window = [status |-> "none", window_base |-> 0, window_size |-> 0,
                        pref_window_base |-> 0, pref_window_size |-> 0]

\* the mapping of size 2 that device setup registered before the io-event calls
SetupMem == CHOOSE m \in Mems : m.size = 2

\* the slot table after device setup added two regions (slots 1 and 2) and
\* removed the first: slot 2 holds SetupMem at guest address 2, slot 1 is a gap
SetupRegions ==
    MapInsert(<<>>, num_regions + 1, [guest_addr |-> 2, mem |-> SetupMem])

\* the state the io-event calls start from: the VM after the device setup
\* above, a state the memory calls reach
InitIo ==
    /\ handles = {1}
    /\ pc = (1 :> "idle")
    /\ call = (1 :> NoCall)
    /\ ret = NoRet
    /\ mem_regions = SetupRegions
    /\ mem_slot_gaps = HeapPush(<<>>, num_regions)
    /\ driver_ram = set_user_memory_region(StaticRam, FALSE, 2, SetupMem.size,
                        OpAdd(SetupMem.ptr), "Ok")
    /\ live = SetupRegions
    /\ unmap_ok = (num_regions :> 1) @@ (num_regions + 1 :> 0)
    /\ bar_ranges = <<>>
    /\ bridge_window = [status |-> "none", window_base |-> 0, window_size |-> 0,
                        pref_window_base |-> 0, pref_window_size |-> 0]
    /\ regions_lock = 0
    /\ gaps_lock = 0
    /\ ioevents = (1 :> <<>>)
    /\ event_pending = [o \in Events |-> FALSE]
    /\ fd_maps = {}
    /\ vcpu_fds = {}
    /\ driver_vcpus = {}

----------------------------------------------------------------------------
(* Locks *)

\* faulty variant: the lock does not exclude a second holder
MutexFree_NoExclusion(lock) == TRUE

\* sync::Mutex::lock blocks until the mutex is free
MutexFree(lock) == lock = 0

\* faulty variant: the guard outlives the call and the mutex stays taken
MutexUnlock_Leaked(h) == h

\* the MutexGuard of h goes out of scope at the end of the call: the mutex is
\* free again
MutexUnlock(h) == 0

\* mappings no caller holds: those in the slot table or moved into a running call
HeldMems ==
    {mem_regions[s].mem : s \in DOMAIN mem_regions}
        \cup {call[h].mem : h \in handles}

Goto(h, label) == pc' = [pc EXCEPT ![h] = label]

Done(h, r) ==
    /\ pc' = [pc EXCEPT ![h] = "idle"]
    /\ call' = [call EXCEPT ![h] = NoCall]
    /\ ret' = r

----------------------------------------------------------------------------
(* add_memory_region *)

\* line 209: the slot minted when the gap heap is empty
FreshSlot(regions) == Cardinality(DOMAIN regions) + num_regions

\* faulty variant: the largest gap is taken
ChooseSlot_LargestGap(gaps, regions) ==
    IF gaps # <<>> THEN gaps[Len(gaps)] ELSE FreshSlot(regions)

\* faulty variant: a slot past every slot in use or in the heap is minted
ChooseSlot_IgnoreGaps(gaps, regions) == FreshSlot(regions) + Len(gaps)

\* lines 207-210: the slot add_memory_region chooses
ChooseSlot(gaps, regions) ==
    IF HeapPeek(gaps) # None THEN HeapPeek(gaps) ELSE FreshSlot(regions)

\* faulty variant: the candidate slot is dropped instead of pushed back
GapsAfterMapError_NoPush(gaps, slot) == gaps

\* lines 226-229: the gap heap after the driver refused the mapping
GapsAfterMapError(gaps, slot) == HeapPush(gaps, slot)

\* faulty variant: the entry is inserted before the driver's answer is looked at
RegionsAfterMap_InsertOnError(regions, res, slot, guest_addr, mem) ==
    MapInsert(regions, slot, [guest_addr |-> guest_addr, mem |-> mem])

\* lines 226-231: the slot table after the driver call returned res
RegionsAfterMap(regions, res, slot, guest_addr, mem) ==
    IF res # "Ok" THEN regions
    ELSE MapInsert(regions, slot, [guest_addr |-> guest_addr, mem |-> mem])

\* faulty variant: a refused mapping is reported as ENOSPC
AddResult_NoSpace(res) == IF res = "Ok" THEN "Ok" ELSE "ENOSPC"

\* lines 226-231: Err(e) with the driver's error, or Ok(slot)
AddResult(res) == res

\* faulty variant: the static layout is not consulted
AddPrecheck_NoOverlapCheck(guest_addr, size) ==
    IF checked_add(guest_addr, size) = None THEN "EOVERFLOW" ELSE "Ok"

\* faulty variant: the ranges of the slot table are consulted as well
AddPrecheck_ChecksTable(guest_addr, size) ==
    LET end_addr == checked_add(guest_addr, size)
    IN  IF end_addr = None THEN "EOVERFLOW"
        ELSE IF \/ range_overlap(guest_addr, end_addr)
                \/ \E s \in DOMAIN mem_regions :
                      Range(guest_addr, size)
                          \cap Range(mem_regions[s].guest_addr,
                                     mem_regions[s].mem.size) # {}
             THEN "ENOSPC"
        ELSE "Ok"

\* lines 200-204: the checks add_memory_region makes before it takes a lock
AddPrecheck(guest_addr, size) ==
    LET end_addr == checked_add(guest_addr, size)
    IN  IF end_addr = None THEN "EOVERFLOW"
        ELSE IF range_overlap(guest_addr, end_addr) THEN "ENOSPC"
        ELSE "Ok"

\* lines 200-204: the checks before any lock is taken; a failing check returns
AddCall(h, guest_addr, mem) ==
    /\ pc[h] = "idle"
    /\ mem \notin HeldMems
    /\ LET pre       == AddPrecheck(guest_addr, mem.size)
           failed(e) == [NoRet EXCEPT !.op = "add", !.h = h, !.res = e,
                             !.guest_addr = guest_addr, !.mem = mem,
                             !.pre_regions = mem_regions,
                             !.pre_gaps = mem_slot_gaps,
                             !.pre_ram = driver_ram]
       IN  IF pre # "Ok"
           THEN /\ ret' = failed(pre)
                /\ UNCHANGED <<pc, call>>
           ELSE /\ Goto(h, "add_lock_regions")
                /\ call' = [call EXCEPT ![h] =
                               [NoCall EXCEPT !.guest_addr = guest_addr,
                                              !.mem = mem]]
                /\ ret' = NoRet
    /\ UNCHANGED <<fd_maps, vcpu_fds, driver_vcpus, bar_ranges,
                   bridge_window>>
    /\ UNCHANGED <<handles, mem_regions, mem_slot_gaps, regions_lock, gaps_lock,
                   driver_ram, ioevents, event_pending, live, unmap_ok>>

\* line 205: self.mem_regions.lock()
AddLockRegions(h) ==
    /\ pc[h] = "add_lock_regions"
    /\ MutexFree(regions_lock)
    /\ regions_lock' = h
    /\ Goto(h, "add_lock_gaps")
    /\ call' = [call EXCEPT ![h].pre_regions = mem_regions,
                            ![h].pre_gaps = mem_slot_gaps,
                            ![h].pre_ram = driver_ram]
    /\ ret' = NoRet
    /\ UNCHANGED <<fd_maps, vcpu_fds, driver_vcpus, bar_ranges,
                   bridge_window>>
    /\ UNCHANGED <<handles, mem_regions, mem_slot_gaps, gaps_lock, driver_ram,
                   ioevents, event_pending, live, unmap_ok>>

\* line 206: self.mem_slot_gaps.lock()
AddLockGaps(h) ==
    /\ pc[h] = "add_lock_gaps"
    /\ MutexFree(gaps_lock)
    /\ gaps_lock' = h
    /\ Goto(h, "add_pick")
    /\ ret' = NoRet
    /\ UNCHANGED <<fd_maps, vcpu_fds, driver_vcpus, bar_ranges,
                   bridge_window>>
    /\ UNCHANGED <<handles, call, mem_regions, mem_slot_gaps, regions_lock,
                   driver_ram, ioevents, event_pending, live, unmap_ok>>

\* lines 207-210: pop the gap heap, or mint a slot
AddPick(h) ==
    /\ pc[h] = "add_pick"
    /\ call' = [call EXCEPT ![h].slot = ChooseSlot(mem_slot_gaps, mem_regions),
                            ![h].minted = (HeapPeek(mem_slot_gaps) = None)]
    /\ mem_slot_gaps' = HeapPop(mem_slot_gaps)
    /\ Goto(h, "add_map")
    /\ ret' = NoRet
    /\ UNCHANGED <<fd_maps, vcpu_fds, driver_vcpus, bar_ranges,
                   bridge_window>>
    /\ UNCHANGED <<handles, mem_regions, regions_lock, gaps_lock, driver_ram,
                   ioevents, event_pending, live, unmap_ok>>

\* lines 216-224: the driver call; it succeeds or fails as the driver decides.
\* read_only is an argument of add_memory_region that only this statement reads
AddMap(h) ==
    /\ pc[h] = "add_map"
    /\ \E r \in DriverResults, read_only \in BOOLEAN :
        /\ driver_ram' = set_user_memory_region(driver_ram, read_only,
                             call[h].guest_addr, call[h].mem.size,
                             OpAdd(call[h].mem.ptr), r)
        /\ call' = [call EXCEPT ![h].res = r]
    /\ Goto(h, "add_commit")
    /\ ret' = NoRet
    /\ UNCHANGED <<fd_maps, vcpu_fds, driver_vcpus, bar_ranges,
                   bridge_window>>
    /\ UNCHANGED <<handles, mem_regions, mem_slot_gaps, regions_lock, gaps_lock,
                   ioevents, event_pending, live, unmap_ok>>

\* lines 226-232: undo or commit, then return (both guards are dropped)
AddCommit(h) ==
    /\ pc[h] = "add_commit"
    /\ LET c == call[h]
           r == [NoRet EXCEPT !.op = "add", !.h = h, !.res = AddResult(c.res),
                     !.drv = c.res, !.slot = c.slot, !.minted = c.minted,
                     !.guest_addr = c.guest_addr, !.mem = c.mem,
                     !.was_live = (c.slot \in DOMAIN live),
                     !.pre_issued = DOMAIN unmap_ok,
                     !.pre_regions = c.pre_regions, !.pre_gaps = c.pre_gaps,
                     !.pre_ram = c.pre_ram]
       IN  /\ mem_slot_gaps' = IF c.res # "Ok"
                               THEN GapsAfterMapError(mem_slot_gaps, c.slot)
                               ELSE mem_slot_gaps
           /\ mem_regions' = RegionsAfterMap(mem_regions, c.res, c.slot,
                                             c.guest_addr, c.mem)
           /\ live' = IF r.res # "Ok" THEN live
                      ELSE MapInsert(live, c.slot,
                               [guest_addr |-> c.guest_addr, mem |-> c.mem])
           /\ unmap_ok' = IF r.res # "Ok" THEN unmap_ok
                          ELSE MapInsert(unmap_ok, c.slot, 0)
           /\ Done(h, r)
    /\ regions_lock' = 0
    /\ gaps_lock' = 0
    /\ UNCHANGED <<fd_maps, vcpu_fds, driver_vcpus, bar_ranges,
                   bridge_window>>
    /\ UNCHANGED <<handles, driver_ram, ioevents, event_pending>>

----------------------------------------------------------------------------
(* remove_memory_region *)

\* line 249: regions.get(&slot)
RegionsGet(regions, slot) ==
    IF slot \in DOMAIN regions THEN regions[slot] ELSE NoEntry

\* faulty variant: the error add_fd_mapping uses for a missing slot
RemoveMissingErrno_Einval == "EINVAL"

\* line 263: the error for a slot that is not in the table
RemoveMissingErrno == "ENOENT"

\* faulty variant: the entry is taken out of the table before the driver is asked
RegionsAfterUnmap_RemoveFirst(regions, slot, res) == MapRemove(regions, slot)

\* lines 249-259: the slot table once the driver's unmap returned res; the entry
\* is only looked at, whatever the driver answers
RegionsAfterUnmap(regions, slot, res) == regions

\* faulty variant: the removed slot is not recorded as a gap
GapsAfterRemove_NoPush(gaps, slot) == gaps

\* line 260: self.mem_slot_gaps.lock().push(Reverse(slot))
GapsAfterRemove(gaps, slot) == HeapPush(gaps, slot)

\* line 261: regions.remove(&slot).unwrap().1
TakeRegion(regions, slot) == regions[slot].mem

RemoveCall(h, slot) ==
    /\ pc[h] = "idle"
    /\ Goto(h, "remove_lock_regions")
    /\ call' = [call EXCEPT ![h] = [NoCall EXCEPT !.slot = slot]]
    /\ ret' = NoRet
    /\ UNCHANGED <<fd_maps, vcpu_fds, driver_vcpus, bar_ranges,
                   bridge_window>>
    /\ UNCHANGED <<handles, mem_regions, mem_slot_gaps, regions_lock, gaps_lock,
                   driver_ram, ioevents, event_pending, live, unmap_ok>>

\* line 247: self.mem_regions.lock()
RemoveLockRegions(h) ==
    /\ pc[h] = "remove_lock_regions"
    /\ MutexFree(regions_lock)
    /\ regions_lock' = h
    /\ Goto(h, "remove_unmap")
    /\ call' = [call EXCEPT ![h].pre_regions = mem_regions,
                            ![h].pre_gaps = mem_slot_gaps,
                            ![h].pre_ram = driver_ram]
    /\ ret' = NoRet
    /\ UNCHANGED <<fd_maps, vcpu_fds, driver_vcpus, bar_ranges,
                   bridge_window>>
    /\ UNCHANGED <<handles, mem_regions, mem_slot_gaps, gaps_lock, driver_ram,
                   ioevents, event_pending, live, unmap_ok>>

\* lines 249-259 and 262-264: look the slot up; unknown: return the error;
\* known: ask the driver to unmap its range, and return the driver's error if any
RemoveUnmap(h) ==
    /\ pc[h] = "remove_unmap"
    /\ LET c == call[h]
           e == RegionsGet(mem_regions, c.slot)
           r == [NoRet EXCEPT !.op = "remove", !.h = h, !.slot = c.slot,
                     !.pre_regions = c.pre_regions, !.pre_gaps = c.pre_gaps,
                     !.pre_ram = c.pre_ram]
       IN  IF e = NoEntry
           THEN /\ Done(h, [r EXCEPT !.res = RemoveMissingErrno])
                /\ regions_lock' = 0
                /\ UNCHANGED <<mem_regions, driver_ram, unmap_ok>>
           ELSE \E res \in DriverResults :
                /\ driver_ram' = set_user_memory_region(driver_ram, FALSE,
                                     e.guest_addr, e.mem.size, OpRemove, res)
                /\ mem_regions' = RegionsAfterUnmap(mem_regions, c.slot, res)
                /\ IF res = "Ok"
                   THEN /\ Goto(h, "remove_push_gap")
                        /\ call' = [call EXCEPT ![h].res = res,
                                                ![h].guest_addr = e.guest_addr]
                        /\ ret' = NoRet
                        /\ unmap_ok' = [unmap_ok EXCEPT ![c.slot] = @ + 1]
                        /\ UNCHANGED regions_lock
                   ELSE /\ Done(h, [r EXCEPT !.res = res, !.drv = res,
                                             !.guest_addr = e.guest_addr,
                                             !.mem = e.mem])
                        /\ regions_lock' = 0
                        /\ UNCHANGED unmap_ok
    /\ UNCHANGED <<fd_maps, vcpu_fds, driver_vcpus, bar_ranges,
                   bridge_window>>
    /\ UNCHANGED <<handles, mem_slot_gaps, gaps_lock, ioevents, event_pending,
                   live>>

\* line 260: lock the gap heap, push the slot, drop the guard
RemovePushGap(h) ==
    /\ pc[h] = "remove_push_gap"
    /\ MutexFree(gaps_lock)
    /\ mem_slot_gaps' = GapsAfterRemove(mem_slot_gaps, call[h].slot)
    /\ Goto(h, "remove_take")
    /\ ret' = NoRet
    /\ UNCHANGED <<fd_maps, vcpu_fds, driver_vcpus, bar_ranges,
                   bridge_window>>
    /\ UNCHANGED <<handles, call, mem_regions, regions_lock, gaps_lock, driver_ram,
                   ioevents, event_pending, live, unmap_ok>>

\* line 261: take the entry out of the table and hand its mapping back
RemoveTake(h) ==
    /\ pc[h] = "remove_take"
    /\ LET c == call[h]
           present == c.slot \in DOMAIN mem_regions
           r == [NoRet EXCEPT !.op = "remove", !.h = h, !.slot = c.slot,
                     !.drv = c.res, !.guest_addr = c.guest_addr,
                     !.added = IF c.slot \in DOMAIN live THEN live[c.slot]
                               ELSE NoLive,
                     !.pre_regions = c.pre_regions, !.pre_gaps = c.pre_gaps,
                     !.pre_ram = c.pre_ram]
       IN  /\ mem_regions' = MapRemove(mem_regions, c.slot)
           /\ live' = IF present THEN MapRemove(live, c.slot) ELSE live
           /\ Done(h, IF present
                      THEN [r EXCEPT !.res = "Ok",
                                     !.mem = TakeRegion(mem_regions, c.slot)]
                      ELSE [r EXCEPT !.res = "panic"])
    /\ regions_lock' = 0
    /\ UNCHANGED <<fd_maps, vcpu_fds, driver_vcpus, bar_ranges,
                   bridge_window>>
    /\ UNCHANGED <<handles, mem_slot_gaps, gaps_lock, driver_ram, ioevents,
                   event_pending, unmap_ok>>

----------------------------------------------------------------------------
(* try_clone *)

\* errors the descriptor and event clones can fail with
CloneErrnos == {"EMFILE"}

\* faulty variant: the loop stops after the port bindings
CloneIoevents_OnlyPio(evts, n) ==
    [a \in {x \in DOMAIN evts : x.kind = "Pio"} |->
        EventTryClone(evts[a], NewFd(n, a))]

\* lines 170-173: the clone's ioevents, one cloned event per binding
CloneIoevents(evts, n) ==
    [a \in DOMAIN evts |-> EventTryClone(evts[a], NewFd(n, a))]

\* lines 169-183: a clone shares mem_regions and mem_slot_gaps and gets its own
\* ioevents; any failing try_clone()? returns the error and no handle
TryClone(h) ==
    /\ pc[h] = "idle"
    /\ Cardinality(handles) < MaxHandles
    /\ \E res \in {"Ok"} \cup CloneErrnos :
        LET n == Cardinality(handles) + 1
            r == [NoRet EXCEPT !.op = "try_clone", !.h = h, !.res = res,
                      !.pre_ioevents = ioevents[h], !.pre_all = ioevents,
                      !.pre_pending = event_pending,
                      !.pre_regions = mem_regions, !.pre_gaps = mem_slot_gaps,
                      !.pre_ram = driver_ram]
        IN  IF res = "Ok"
            THEN /\ handles' = handles \cup {n}
                 /\ pc' = pc @@ (n :> "idle")
                 /\ call' = call @@ (n :> NoCall)
                 /\ ioevents' = ioevents @@ (n :> CloneIoevents(ioevents[h], n))
                 /\ ret' = [r EXCEPT !.slot = n]
            ELSE /\ ret' = r
                 /\ UNCHANGED <<handles, pc, call, ioevents>>
    /\ UNCHANGED <<fd_maps, vcpu_fds, driver_vcpus, bar_ranges,
                   bridge_window>>
    /\ UNCHANGED <<mem_regions, mem_slot_gaps, regions_lock, gaps_lock, driver_ram,
                   event_pending, live, unmap_ok>>

----------------------------------------------------------------------------
(* register_ioevent, unregister_ioevent, handle_io_events: lines 277-332.
   They take &mut self / &self and touch only the handle's own ioevents, so
   each is one step. *)

\* faulty variant: one map behind every handle
SetIoevents_Shared(all, h, evts) == [x \in DOMAIN all |-> evts]

\* self.ioevents of handle h becomes evts: the field is the handle's own (line
\* 45), every other handle keeps its map
SetIoevents(all, h, evts) == [all EXCEPT ![h] = evts]

\* faulty variant: bindings are looked up by number, whatever the address kind
IoeventsGet_ByNumber(evts, addr) ==
    IF \E a \in DOMAIN evts : a.addr = addr.addr
    THEN evts[CHOOSE a \in DOMAIN evts : a.addr = addr.addr]
    ELSE NoEvent

\* self.ioevents.get(&addr): lines 309, 328
IoeventsGet(evts, addr) == IF addr \in DOMAIN evts THEN evts[addr] ELSE NoEvent

\* faulty variant: the address is looked at before the datamatch
RegisterPrecheck_AddressFirst(evts, addr, datamatch) ==
    IF addr \in DOMAIN evts THEN "EEXIST"
    ELSE IF datamatch # "AnyLength" THEN "ENOTSUP"
    ELSE "Ok"

\* lines 283-291: the checks of register_ioevent
RegisterPrecheck(evts, addr, datamatch) ==
    IF datamatch # "AnyLength" THEN "ENOTSUP"
    ELSE IF addr \in DOMAIN evts THEN "EEXIST"
    ELSE "Ok"

\* lines 283-295: what register_ioevent can return; past the checks it is the
\* outcome of evt.try_clone()
RegisterResults(evts, addr, datamatch) ==
    LET pre == RegisterPrecheck(evts, addr, datamatch)
    IN  IF pre # "Ok" THEN {pre} ELSE {"Ok"} \cup CloneErrnos

\* faulty variant: a second registration replaces the binding
IoeventsAfterRegister_Overwrite(h, evts, res, addr, evt) ==
    IF res \in {"Ok", "EEXIST"}
    THEN MapInsert(evts, addr, EventTryClone(evt, NewFd(h, addr)))
    ELSE evts

\* line 293: self.ioevents.insert(addr, evt.try_clone()?)
IoeventsAfterRegister(h, evts, res, addr, evt) ==
    IF res = "Ok"
    THEN MapInsert(evts, addr, EventTryClone(evt, NewFd(h, addr)))
    ELSE evts

RegisterIoevent(h, evt, addr, datamatch) ==
    /\ pc[h] = "idle"
    /\ \E res \in RegisterResults(ioevents[h], addr, datamatch) :
            /\ ioevents' = SetIoevents(ioevents, h,
                               IoeventsAfterRegister(h, ioevents[h], res, addr,
                                                     evt))
            /\ ret' = [NoRet EXCEPT !.op = "register_ioevent", !.h = h,
                           !.res = res, !.addr = addr, !.evt = evt,
                           !.datamatch = datamatch,
                           !.pre_ioevents = ioevents[h],
                           !.pre_all = ioevents,
                           !.pre_pending = event_pending,
                           !.pre_regions = mem_regions,
                           !.pre_gaps = mem_slot_gaps,
                           !.pre_ram = driver_ram]
    /\ UNCHANGED <<fd_maps, vcpu_fds, driver_vcpus, bar_ranges,
                   bridge_window>>
    /\ UNCHANGED <<handles, pc, call, mem_regions, mem_slot_gaps, regions_lock,
                   gaps_lock, driver_ram, event_pending, live, unmap_ok>>

\* lines 304-321: what unregister_ioevent returns
UnregisterResult(evts, evt, addr, datamatch) ==
    IF datamatch # "AnyLength" THEN "ENOTSUP"
    ELSE LET existing_evt == IoeventsGet(evts, addr)
         IN  IF existing_evt = NoEvent THEN "ENOENT"
             ELSE IF ~EventEq(evt, existing_evt) THEN "ENOENT"
             ELSE "Ok"

\* faulty variant: the binding stays although the call reports success
IoeventsAfterUnregister_Keep(evts, res, addr) == evts

\* faulty variant: the binding goes even when the call is refused as unknown
IoeventsAfterUnregister_RemoveOnError(evts, res, addr) ==
    IF res \in {"Ok", "ENOENT"} THEN MapRemove(evts, addr) ELSE evts

\* line 315: self.ioevents.remove(&addr)
IoeventsAfterUnregister(evts, res, addr) ==
    IF res = "Ok" THEN MapRemove(evts, addr) ELSE evts

UnregisterIoevent(h, evt, addr, datamatch) ==
    /\ pc[h] = "idle"
    /\ LET res == UnregisterResult(ioevents[h], evt, addr, datamatch)
       IN  /\ ioevents' = SetIoevents(ioevents, h,
                              IoeventsAfterUnregister(ioevents[h], res, addr))
           /\ ret' = [NoRet EXCEPT !.op = "unregister_ioevent", !.h = h,
                          !.res = res, !.addr = addr, !.evt = evt,
                          !.datamatch = datamatch,
                          !.pre_ioevents = ioevents[h],
                          !.pre_all = ioevents,
                          !.pre_pending = event_pending,
                          !.pre_regions = mem_regions,
                          !.pre_gaps = mem_slot_gaps,
                          !.pre_ram = driver_ram]
    /\ UNCHANGED <<fd_maps, vcpu_fds, driver_vcpus, bar_ranges,
                   bridge_window>>
    /\ UNCHANGED <<handles, pc, call, mem_regions, mem_slot_gaps, regions_lock,
                   gaps_lock, driver_ram, event_pending, live, unmap_ok>>

\* faulty variant: the write reaches every event object
PendingAfterWrite_All(pending, obj, w) ==
    IF w = "Ok" THEN [o \in DOMAIN pending |-> TRUE] ELSE pending

\* line 329: evt.write(1), w its outcome
PendingAfterWrite(pending, obj, w) ==
    IF w = "Ok" THEN [pending EXCEPT ![obj] = TRUE] ELSE pending

\* lines 327-332: write 1 to the event bound to addr, if there is one
HandleIoEvents(h, addr) ==
    /\ pc[h] = "idle"
    /\ LET evt == IoeventsGet(ioevents[h], addr)
           r   == [NoRet EXCEPT !.op = "handle_io_events", !.h = h,
                       !.addr = addr, !.pre_ioevents = ioevents[h],
                       !.pre_all = ioevents,
                       !.pre_pending = event_pending,
                       !.pre_regions = mem_regions,
                       !.pre_gaps = mem_slot_gaps,
                       !.pre_ram = driver_ram]
       IN  IF evt = NoEvent
           THEN /\ ret' = [r EXCEPT !.res = "Ok"]
                /\ UNCHANGED event_pending
           ELSE \E w \in {"Ok"} \cup WriteErrnos :
                   /\ event_pending' =
                          PendingAfterWrite(event_pending, evt.obj, w)
                   /\ ret' = [r EXCEPT !.res = w, !.evt = evt,
                                  !.written = IF w = "Ok" THEN <<evt.obj>>
                                              ELSE <<>>]
    /\ UNCHANGED <<fd_maps, vcpu_fds, driver_vcpus, bar_ranges,
                   bridge_window>>
    /\ UNCHANGED <<handles, pc, call, mem_regions, mem_slot_gaps, regions_lock,
                   gaps_lock, driver_ram, ioevents, live, unmap_ok>>

----------------------------------------------------------------------------
(* check_capability, handle_deflate, handle_inflate: lines 185-187, 374-386.
   They touch no field of the handle, so each is one step. *)

\* the VmCap values asked about
VmCaps == {"DirtyLog", "PvClock", "Protected"}

\* the sizes ballooning requests come with
BalloonSizes == {1, AddrMax}

\* what a call that returns in one step reports about the state it found
Snapshot(op, h) ==
    [NoRet EXCEPT !.op = op, !.h = h,
                  !.pre_ioevents = ioevents[h], !.pre_all = ioevents,
                  !.pre_pending = event_pending,
                  !.pre_fd_maps = fd_maps, !.pre_vcpu_fds = vcpu_fds,
                  !.pre_regions = mem_regions, !.pre_gaps = mem_slot_gaps,
                  !.pre_ram = driver_ram]

\* faulty variant: the dirty log is reported as supported
CapabilitySupported_DirtyLog(c) == c = "DirtyLog"

\* line 186: check_capability ignores its argument
CapabilitySupported(c) == FALSE

\* lines 185-187
CheckCapability(h, c) ==
    /\ pc[h] = "idle"
    /\ ret' = [Snapshot("check_capability", h) EXCEPT
                  !.res = IF CapabilitySupported(c) THEN "true" ELSE "false",
                  !.datamatch = c]
    /\ UNCHANGED <<handles, pc, call, mem_regions, mem_slot_gaps, regions_lock,
                   gaps_lock, driver_ram, ioevents, event_pending, fd_maps,
                   vcpu_fds, driver_vcpus, live, unmap_ok,
                   bar_ranges, bridge_window>>

\* faulty variant: a request past the end of guest memory is refused
BalloonResult_CheckRange(guest_address, size) ==
    IF guest_address + size > AddrMax THEN "EINVAL" ELSE "Ok"

\* lines 378, 385: Ok(()), whatever the arguments
BalloonResult(guest_address, size) == "Ok"

\* lines 374-379
HandleDeflate(h, guest_address, size) ==
    /\ pc[h] = "idle"
    /\ ret' = [Snapshot("handle_deflate", h) EXCEPT
                  !.res = BalloonResult(guest_address, size),
                  !.guest_addr = guest_address,
                  !.mem = [ptr |-> 0, size |-> size]]
    /\ UNCHANGED <<handles, pc, call, mem_regions, mem_slot_gaps, regions_lock,
                   gaps_lock, driver_ram, ioevents, event_pending, fd_maps,
                   vcpu_fds, driver_vcpus, live, unmap_ok,
                   bar_ranges, bridge_window>>

\* lines 381-386
HandleInflate(h, guest_address, size) ==
    /\ pc[h] = "idle"
    /\ ret' = [Snapshot("handle_inflate", h) EXCEPT
                  !.res = BalloonResult(guest_address, size),
                  !.guest_addr = guest_address,
                  !.mem = [ptr |-> 0, size |-> size]]
    /\ UNCHANGED <<handles, pc, call, mem_regions, mem_slot_gaps, regions_lock,
                   gaps_lock, driver_ram, ioevents, event_pending, fd_maps,
                   vcpu_fds, driver_vcpus, live, unmap_ok,
                   bar_ranges, bridge_window>>

----------------------------------------------------------------------------
(* msync_memory_region, add_fd_mapping, remove_mapping: lines 234-244 and
   344-372.  Each takes the table lock, looks the slot up and hands the call to
   the mapping found there. *)

\* the errno a failing system call of the mapping layer reports
MmapSyscallErrno == "EBADF"

\* what a call of the mapping layer returns: Ok or an MmapError
MmapResults ==
    {"Ok", "InvalidAddress", "NotPageAligned", "SystemCallFailed", "InvalidRange"}

\* lines 238-243: msync's error translation
MsyncErrno(m) ==
    CASE m = "Ok"               -> "Ok"
      [] m = "InvalidAddress"   -> "EFAULT"
      [] m = "NotPageAligned"   -> "EINVAL"
      [] m = "SystemCallFailed" -> MmapSyscallErrno
      [] OTHER                  -> "EIO"

\* lines 356-360, 367-371: the error translation of add_fd_mapping and
\* remove_mapping
FdMappingErrno(m) ==
    CASE m = "Ok"               -> "Ok"
      [] m = "SystemCallFailed" -> MmapSyscallErrno
      [] OTHER                  -> "EIO"

\* line 236: the error of msync_memory_region for a slot not in the table
MsyncMissingErrno == "ENOENT"

\* faulty variant: the error remove_memory_region uses for a missing slot
MappingMissingErrno_Enoent == "ENOENT"

\* lines 354, 365: the error of add_fd_mapping and remove_mapping for a slot not
\* in the table
MappingMissingErrno == "EINVAL"

\* the call starts: its first statement is self.mem_regions.lock()
MapOpCall(h, slot, label) ==
    /\ pc[h] = "idle"
    /\ Goto(h, label)
    /\ call' = [call EXCEPT ![h] = [NoCall EXCEPT !.slot = slot]]
    /\ ret' = NoRet
    /\ UNCHANGED <<handles, mem_regions, mem_slot_gaps, regions_lock, gaps_lock,
                   driver_ram, ioevents, event_pending, fd_maps, vcpu_fds,
                   driver_vcpus, live, unmap_ok,
                   bar_ranges, bridge_window>>

\* lines 235, 353, 364: self.mem_regions.lock()
MapOpLock(h, from, to) ==
    /\ pc[h] = from
    /\ MutexFree(regions_lock)
    /\ regions_lock' = h
    /\ Goto(h, to)
    /\ call' = [call EXCEPT ![h].pre_regions = mem_regions,
                            ![h].pre_gaps = mem_slot_gaps,
                            ![h].pre_ram = driver_ram]
    /\ ret' = NoRet
    /\ UNCHANGED <<handles, mem_regions, mem_slot_gaps, gaps_lock, driver_ram,
                   ioevents, event_pending, fd_maps, vcpu_fds, driver_vcpus,
                   live, unmap_ok,
                   bar_ranges, bridge_window>>

\* mem.msync(offset, size) flushes the mapping and maps nothing
FdMapsAfterMsync(ptr, res) == fd_maps

\* region.add_fd_mapping(..): on success a file is mapped into the mapping
FdMapsAfterAdd(ptr, res) == IF res = "Ok" THEN fd_maps \cup {ptr} ELSE fd_maps

\* region.remove_mapping(..): on success the file mapping is gone
FdMapsAfterRemove(ptr, res) == IF res = "Ok" THEN fd_maps \ {ptr} ELSE fd_maps

\* the rest of the call op under the lock: look the slot up, let the mapping do
\* the work (its outcome m), translate the error, drop the guard and return
MapOpDo(h, at, op) ==
    /\ pc[h] = at
    /\ LET msync == op = "msync_memory_region"
           missing == IF msync THEN MsyncMissingErrno ELSE MappingMissingErrno
           res_of(m) == IF msync THEN MsyncErrno(m) ELSE FdMappingErrno(m)
           maps(ptr, res) ==
               CASE msync -> FdMapsAfterMsync(ptr, res)
                 [] op = "add_fd_mapping" -> FdMapsAfterAdd(ptr, res)
                 [] OTHER -> FdMapsAfterRemove(ptr, res)
           c == call[h]
           e == RegionsGet(mem_regions, c.slot)
           r == [NoRet EXCEPT !.op = op, !.h = h, !.slot = c.slot,
                     !.mem = e.mem, !.pre_fd_maps = fd_maps,
                     !.pre_vcpu_fds = vcpu_fds, !.pre_all = ioevents,
                     !.pre_pending = event_pending,
                     !.pre_regions = c.pre_regions, !.pre_gaps = c.pre_gaps,
                     !.pre_ram = c.pre_ram]
       IN  IF e = NoEntry
           THEN /\ Done(h, [r EXCEPT !.res = missing])
                /\ UNCHANGED fd_maps
           ELSE \E m \in MmapResults :
                   /\ Done(h, [r EXCEPT !.res = res_of(m)])
                   /\ fd_maps' = maps(e.mem.ptr, res_of(m))
    /\ regions_lock' = MutexUnlock(h)
    /\ UNCHANGED <<handles, mem_regions, mem_slot_gaps, gaps_lock, driver_ram,
                   ioevents, event_pending, vcpu_fds, driver_vcpus, live,
                   unmap_ok,
                   bar_ranges, bridge_window>>

MsyncCall(h, slot) == MapOpCall(h, slot, "msync_lock_regions")

MsyncLockRegions(h) == MapOpLock(h, "msync_lock_regions", "msync_do")

\* lines 236-243
MsyncDo(h) ==
    MapOpDo(h, "msync_do", "msync_memory_region")

AddFdMappingCall(h, slot) == MapOpCall(h, slot, "add_fd_lock_regions")

AddFdMappingLockRegions(h) == MapOpLock(h, "add_fd_lock_regions", "add_fd_do")

\* lines 354-360
AddFdMappingDo(h) ==
    MapOpDo(h, "add_fd_do", "add_fd_mapping")

RemoveMappingCall(h, slot) == MapOpCall(h, slot, "remove_mapping_lock_regions")

RemoveMappingLockRegions(h) ==
    MapOpLock(h, "remove_mapping_lock_regions", "remove_mapping_do")

\* lines 365-371
RemoveMappingDo(h) ==
    MapOpDo(h, "remove_mapping_do", "remove_mapping")

----------------------------------------------------------------------------
(* create_vcpu: lines 399-443.  It takes no lock and works on the VM descriptor
   and on locals only. *)

\* the vCPU ids callers ask for
VcpuIds == {0, 1}

\* the errno errno_result() and the device open report on failure
VcpuErrnos == {"ENXIO"}

\* where the call stops: the create ioctl failed (402), the device could not
\* be opened (406-407), the tunnel ioctl failed (416), the tunnel mapping (426)
\* or the io buffer mapping (433) could not be wrapped, or it ran to line 436
VcpuSteps ==
    {"create_failed", "open_failed", "tunnel_failed", "tunnel_map_failed",
     "io_map_failed", "Ok"}

\* lines 403, 407, 417, 426, 433, 436: the result for each stopping point
VcpuResults(step) ==
    CASE step = "Ok" -> {"Ok"}
      [] step \in {"tunnel_map_failed", "io_map_failed"} -> {"ENOSPC"}
      [] OTHER -> VcpuErrnos

\* line 401: once the create ioctl succeeded the driver has the vCPU, and no
\* later failure undoes that
DriverVcpusAfter(vcpus, step, id) ==
    IF step = "create_failed" THEN vcpus ELSE vcpus \cup {id}

\* faulty variant: a failed mapping step returns with the descriptor still open
VcpuFdsAfter_LeakOnMapError(fds, step, id) ==
    IF step \in {"Ok", "tunnel_map_failed", "io_map_failed"}
    THEN fds \cup {id} ELSE fds

\* lines 406-442: descriptor is a local SafeDescriptor; every early return after
\* line 407 drops it, which closes it, and only line 437 moves it into the
\* HaxmVcpu handed to the caller
VcpuFdsAfter(fds, step, id) ==
    IF step = "Ok" THEN fds \cup {id} ELSE fds

\* the whole call; each vCPU is created once, so id has no open descriptor
CreateVcpu(h, id) ==
    /\ h \in handles
    /\ pc[h] = "idle"
    /\ id \notin vcpu_fds
    /\ \E step \in VcpuSteps : \E res \in VcpuResults(step) :
          /\ ret' = [Snapshot("create_vcpu", h) EXCEPT
                        !.res = res, !.slot = id, !.drv = step]
          /\ vcpu_fds' = VcpuFdsAfter(vcpu_fds, step, id)
          /\ driver_vcpus' = DriverVcpusAfter(driver_vcpus, step, id)
    /\ UNCHANGED <<handles, pc, call, mem_regions, mem_slot_gaps, regions_lock,
                   gaps_lock, driver_ram, ioevents, event_pending, fd_maps,
                   live, unmap_ok,
                   bar_ranges, bridge_window>>

----------------------------------------------------------------------------
(* PciBridge::configure_bridge_window (devices/src/pci/pcie/pci_bridge.rs,
   lines 315-438): a function of the children's BAR ranges, of the sizes a
   hotplug bridge asks for and of what the MMIO allocators answer. *)

\* line 34
BR_WINDOW_ALIGNMENT == 1048576

\* line 36
BR_MEM_MINIMUM == 2097152

\* stands for u64::MAX, the value of a base that is not set: the largest integer
\* of the model, above every address drawn
U64Max == 2147483647

\* the most BAR ranges behind a bridge
MaxBars == 2

\* BAR addresses: on a 1MB boundary and off it
BarAddrs ==
    {3 * BR_WINDOW_ALIGNMENT, 3 * BR_WINDOW_ALIGNMENT + 4096,
     5 * BR_WINDOW_ALIGNMENT + 65536, 6 * BR_WINDOW_ALIGNMENT}

BarSizes == {4096, BR_WINDOW_ALIGNMENT}

\* struct BarRange
BarRanges == [addr : BarAddrs, size : BarSizes, prefetchable : BOOLEAN]

\* get_bridge_window_size() of a hotplug bridge: 0 asks for nothing
HotplugSizes == {0, BR_WINDOW_ALIGNMENT + 4096}

\* allocate_with_align(.., BR_WINDOW_ALIGNMENT) on the low and on the high MMIO
\* allocator: an aligned address, or an error, which leaves the base unset
LowAllocs == {8 * BR_WINDOW_ALIGNMENT, U64Max}

HighAllocs == {16 * BR_WINDOW_ALIGNMENT, U64Max}

Min(a, b) == IF a <= b THEN a ELSE b

Max(a, b) == IF a >= b THEN a ELSE b

NoWindow ==
    [status |-> "none", window_base |-> 0, window_size |-> 0,
     pref_window_base |-> 0, pref_window_size |-> 0]

\* lines 324-327: the locals before anything is looked at
UnsetWindow ==
    [status |-> "none", window_base |-> U64Max, window_size |-> 0,
     pref_window_base |-> U64Max, pref_window_size |-> 0]

\* lines 329-339: a hotplug bridge takes the sizes the device asks for
HotplugWindow(win_size, pref_win_size) ==
    [UnsetWindow EXCEPT
        !.window_size = IF win_size # 0 THEN win_size ELSE 0,
        !.pref_window_size = IF pref_win_size # 0 THEN pref_win_size ELSE 0]

\* lines 342-356: the loop over the children's BAR ranges
RECURSIVE ChildrenWindow(_, _)
ChildrenWindow(bars, n) ==
    IF n = 0 THEN UnsetWindow
    ELSE LET w == ChildrenWindow(bars, n - 1)
             b == bars[n]
         IN  IF b.prefetchable
             THEN LET base == Min(w.pref_window_base, b.addr)
                  IN  [w EXCEPT !.pref_window_base = base,
                                !.pref_window_size =
                                    Max(w.pref_window_size, b.addr + b.size - base)]
             ELSE LET base == Min(w.window_base, b.addr)
                  IN  [w EXCEPT !.window_base = base,
                                !.window_size =
                                    Max(w.window_size, b.addr + b.size - base)]

\* x & !(BR_WINDOW_ALIGNMENT - 1)
MaskAligned(x) == x - (x % BR_WINDOW_ALIGNMENT)

\* lines 358-365, 393-401: at least 2MB, then up to the next 1MB boundary
WindowSize(size) ==
    LET s == IF size = 0 THEN BR_MEM_MINIMUM ELSE size
    IN  IF s % BR_WINDOW_ALIGNMENT # 0
        THEN MaskAligned(s + BR_WINDOW_ALIGNMENT - 1) ELSE s

\* lines 367-391: an unset base is what the allocator answered, alloc; a set one
\* goes up to the next 1MB boundary
WindowBase(base, alloc) ==
    IF base = U64Max THEN alloc
    ELSE IF base % BR_WINDOW_ALIGNMENT # 0
         THEN MaskAligned(base + BR_WINDOW_ALIGNMENT - 1) ELSE base

\* (window_base + BR_WINDOW_ALIGNMENT - 1) & !(BR_WINDOW_ALIGNMENT - 1) at
\* lines 426-427: with window_base still u64::MAX the sum overflows, which
\* panics in a build with overflow checks (None) and wraps, to 0 after the
\* mask, in one without
RoundedWindowBase(window_base) ==
    IF window_base = U64Max THEN {None, 0}
    ELSE {MaskAligned(window_base + BR_WINDOW_ALIGNMENT - 1)}

\* lines 403-429: the values pref_window_base can have after them; an unset
\* base is what the allocator answered; a set one that is off the 1MB
\* boundary is replaced by window_base, as it is by then, rounded up
PrefWindowBases(pref_base, window_base, alloc) ==
    IF pref_base = U64Max THEN {alloc}
    ELSE IF pref_base % BR_WINDOW_ALIGNMENT # 0
         THEN RoundedWindowBase(window_base) ELSE {pref_base}

\* lines 358-436: from the locals after the first part to the arguments of
\* write_bridge_window; the cast of window_base and window_size to u32 at lines
\* 432-433 keeps every value drawn here (all are below 2^31) and turns
\* u64::MAX into u32::MAX, which U64Max stands for as well
WindowsWritten(w, low, high) ==
    LET window_size == WindowSize(w.window_size)
        window_base == WindowBase(w.window_base, low)
        pref_window_size == WindowSize(w.pref_window_size)
    IN  {IF pref_base = None
         THEN [NoWindow EXCEPT !.status = "panic"]
         ELSE [status |-> "written",
               window_base |-> window_base, window_size |-> window_size,
               pref_window_base |-> pref_base,
               pref_window_size |-> pref_window_size] :
            pref_base \in PrefWindowBases(w.pref_window_base, window_base, high)}

\* the whole call on a bridge with children
ConfigureBridgeWindow(low, high) ==
    /\ \E w \in WindowsWritten(ChildrenWindow(bar_ranges, Len(bar_ranges)),
                               low, high) :
          bridge_window' = w
    /\ UNCHANGED <<handles, pc, call, ret, mem_regions, mem_slot_gaps,
                   regions_lock, gaps_lock, driver_ram, ioevents, event_pending,
                   fd_maps, vcpu_fds, driver_vcpus, live, unmap_ok, bar_ranges>>

\* the whole call on a hotplug bridge, which looks at no BAR range
ConfigureHotplugBridgeWindow(win_size, pref_win_size, low, high) ==
    /\ \E w \in WindowsWritten(HotplugWindow(win_size, pref_win_size),
                               low, high) :
          bridge_window' = [w EXCEPT !.status = "hotplug"]
    /\ UNCHANGED <<handles, pc, call, ret, mem_regions, mem_slot_gaps,
                   regions_lock, gaps_lock, driver_ram, ioevents, event_pending,
                   fd_maps, vcpu_fds, driver_vcpus, live, unmap_ok, bar_ranges>>

----------------------------------------------------------------------------
(* Specification *)

Next ==
    \/ \E h \in handles : TryClone(h)
    \/ \E h \in handles, a \in GuestAddrs, m \in Mems : AddCall(h, a, m)
    \/ \E h \in handles : AddLockRegions(h)
    \/ \E h \in handles : AddLockGaps(h)
    \/ \E h \in handles : AddPick(h)
    \/ \E h \in handles : AddMap(h)
    \/ \E h \in handles : AddCommit(h)
    \/ \E h \in handles, s \in SlotArgs : RemoveCall(h, s)
    \/ \E h \in handles : RemoveLockRegions(h)
    \/ \E h \in handles : RemoveUnmap(h)
    \/ \E h \in handles : RemovePushGap(h)
    \/ \E h \in handles : RemoveTake(h)

Spec == Init /\ [][Next]_vars

\* the io-event calls of a handle and of its clones
NextIo ==
    \/ \E h \in handles : TryClone(h)
    \/ \E h \in handles, e \in CallerEvents, a \in IoAddrs, d \in Datamatches :
           RegisterIoevent(h, e, a, d)
    \/ \E h \in handles, e \in CallerEvents, a \in IoAddrs, d \in Datamatches :
           UnregisterIoevent(h, e, a, d)
    \/ \E h \in handles, a \in IoAddrs : HandleIoEvents(h, a)

SpecIo == InitIo /\ [][NextIo]_vars

\* the memory calls of one handle together with its other calls
NextVm ==
    \/ \E a \in GuestAddrs, m \in Mems : AddCall(1, a, m)
    \/ AddLockRegions(1)
    \/ AddLockGaps(1)
    \/ AddPick(1)
    \/ AddMap(1)
    \/ AddCommit(1)
    \/ \E s \in SlotArgs : RemoveCall(1, s)
    \/ RemoveLockRegions(1)
    \/ RemoveUnmap(1)
    \/ RemovePushGap(1)
    \/ RemoveTake(1)
    \/ \E c \in VmCaps : CheckCapability(1, c)
    \/ \E a \in GuestAddrs, n \in BalloonSizes : HandleDeflate(1, a, n)
    \/ \E a \in GuestAddrs, n \in BalloonSizes : HandleInflate(1, a, n)
    \/ \E s \in SlotArgs : MsyncCall(1, s)
    \/ MsyncLockRegions(1)
    \/ MsyncDo(1)
    \/ \E s \in SlotArgs : AddFdMappingCall(1, s)
    \/ AddFdMappingLockRegions(1)
    \/ AddFdMappingDo(1)
    \/ \E s \in SlotArgs : RemoveMappingCall(1, s)
    \/ RemoveMappingLockRegions(1)
    \/ RemoveMappingDo(1)

SpecVm == Init /\ [][NextVm]_vars

\* the steps of handle h inside a call it has begun
Step(h) ==
    /\ h \in handles
    /\ \/ AddLockRegions(h)
       \/ AddLockGaps(h)
       \/ AddPick(h)
       \/ AddMap(h)
       \/ AddCommit(h)
       \/ RemoveLockRegions(h)
       \/ RemoveUnmap(h)
       \/ RemovePushGap(h)
       \/ RemoveTake(h)
       \/ MsyncLockRegions(h)
       \/ MsyncDo(h)
       \/ AddFdMappingLockRegions(h)
       \/ AddFdMappingDo(h)
       \/ RemoveMappingLockRegions(h)
       \/ RemoveMappingDo(h)

\* the guest address every add of NextLive uses: it passes the checks made
\* before the locks, which is the only way an address bears on the locking
LiveAddr == CHOOSE a \in GuestAddrs : AddPrecheck(a, 1) = "Ok"

\* the mapping every add of NextLive registers
LiveMem == CHOOSE m \in Mems : m.size = 1

\* the calls that take the table lock, from a handle and its clones
NextLive ==
    \/ \E h \in handles : TryClone(h)
    \/ \E h \in handles : AddCall(h, LiveAddr, LiveMem)
    \/ \E h \in handles, s \in SlotArgs : RemoveCall(h, s)
    \/ \E h \in handles, s \in SlotArgs : MsyncCall(h, s)
    \/ \E h \in handles, s \in SlotArgs : AddFdMappingCall(h, s)
    \/ \E h \in handles, s \in SlotArgs : RemoveMappingCall(h, s)
    \/ \E h \in handles : Step(h)

\* fair scheduling: a thread inside a call that can run again and again, each
\* time the mutex it waits for is free, does run; the driver calls return
\* (AddMap and RemoveUnmap are steps of Step)
FairLive == \A h \in 1..MaxHandles : SF_vars(Step(h))

SpecLive == Init /\ [][NextLive]_vars /\ FairLive

\* one handle that adds and removes regions, binds an io event and creates
\* vCPUs
NextVcpu ==
    \/ \E a \in GuestAddrs, m \in Mems : AddCall(1, a, m)
    \/ AddLockRegions(1)
    \/ AddLockGaps(1)
    \/ AddPick(1)
    \/ AddMap(1)
    \/ AddCommit(1)
    \/ \E s \in SlotArgs : RemoveCall(1, s)
    \/ RemoveLockRegions(1)
    \/ RemoveUnmap(1)
    \/ RemovePushGap(1)
    \/ RemoveTake(1)
    \/ \E e \in CallerEvents : RegisterIoevent(1, e, Pio(1), "AnyLength")
    \/ \E id \in VcpuIds : CreateVcpu(1, id)

SpecVcpu == Init /\ [][NextVcpu]_vars

\* a bridge with up to MaxBars BAR ranges behind it, before its window is
\* configured; the virtual machine plays no part
InitBridge ==
    /\ bar_ranges \in UNION {[1..n -> BarRanges] : n \in 0..MaxBars}
    /\ bridge_window = NoWindow
    /\ handles = {1}
    /\ pc = (1 :> "idle")
    /\ call = (1 :> NoCall)
    /\ ret = NoRet
    /\ mem_regions = <<>>
    /\ mem_slot_gaps = <<>>
    /\ regions_lock = 0
    /\ gaps_lock = 0
    /\ driver_ram = StaticRam
    /\ ioevents = (1 :> <<>>)
    /\ event_pending = [o \in Events |-> FALSE]
    /\ fd_maps = {}
    /\ vcpu_fds = {}
    /\ driver_vcpus = {}
    /\ live = <<>>
    /\ unmap_ok = <<>>

NextBridge ==
    \/ \E low \in LowAllocs, high \in HighAllocs : ConfigureBridgeWindow(low, high)
    \/ \E win_size, pref_win_size \in HotplugSizes :
          \E low \in LowAllocs, high \in HighAllocs :
             ConfigureHotplugBridgeWindow(win_size, pref_win_size, low, high)

SpecBridge == InitBridge /\ [][NextBridge]_vars

----------------------------------------------------------------------------
(* Properties *)

InHeap(heap, x) == \E i \in 1..Len(heap) : heap[i] = x

Count(heap, x) == Len(SelectSeq(heap, LAMBDA y : y = x))

DriverFailed == ret.drv \in DriverErrnos

\* the guest addresses of the static layout
StaticAddrs ==
    UNION {Range(GuestMemRegions[i].guest_base, GuestMemRegions[i].size) :
               i \in 1..Len(GuestMemRegions)}

\* the guest addresses the entries of a slot table cover
Covered(regions) ==
    UNION {Range(regions[s].guest_addr, regions[s].mem.size) : s \in DOMAIN regions}

\* C1: the slots returned by a successful add and not yet given back by a
\* successful remove are exactly the keys of the slot table, whatever calls
\* succeeded or failed before.
C1_LiveSlotsAreTableKeys == DOMAIN live = DOMAIN mem_regions

C1_Witness ==
    /\ ret.op = "remove"
    /\ DriverFailed
    /\ mem_slot_gaps # <<>>
    /\ mem_regions # <<>>

\* C2: a successful add never returns a slot that is live when it returns, and two
\* adds that run at the same time never hold the same candidate slot.
C2_AddNeverReturnsLiveSlot ==
    /\ (ret.op = "add" /\ ret.res = "Ok") => ~ret.was_live
    /\ \A h1, h2 \in handles :
        (/\ h1 # h2
         /\ pc[h1] \in {"add_map", "add_commit"}
         /\ pc[h2] \in {"add_map", "add_commit"})
        => call[h1].slot # call[h2].slot

\* an add returns a slot while an add on another handle waits for the table lock
C2_Witness ==
    /\ ret.op = "add"
    /\ ret.res = "Ok"
    /\ \E h \in handles \ {ret.h} : pc[h] = "add_lock_regions"

\* C3: no two live slots have intersecting guest address ranges.
C3_NoTwoLiveSlotsOverlap ==
    \A s1, s2 \in DOMAIN live :
        s1 # s2 =>
            Range(live[s1].guest_addr, live[s1].mem.size)
                \cap Range(live[s2].guest_addr, live[s2].mem.size) = {}

\* C4: whenever no call is inside the table's critical section, the guest addresses
\* the slot table records are exactly the dynamically added guest addresses the
\* driver has mapped.
C4_TableMirrorsDriver ==
    regions_lock = 0 => Covered(mem_regions) = DOMAIN driver_ram \ StaticAddrs

C6_DriverFailureChangesNothing ==
    (ret.op \in {"add", "remove"} /\ DriverFailed) =>
        /\ mem_regions = ret.pre_regions
        /\ mem_slot_gaps = ret.pre_gaps

\* what the code does guarantee after a driver failure: the slot table is
\* unchanged; the gap heap is unchanged when the call was a remove or an add whose
\* candidate was popped from the heap, and holds its former contents plus the
\* candidate when the candidate was freshly minted.
DriverFailureKeepsTable ==
    (ret.op \in {"add", "remove"} /\ DriverFailed) =>
        /\ mem_regions = ret.pre_regions
        /\ mem_slot_gaps = IF ret.op = "add" /\ ret.minted
                           THEN HeapPush(ret.pre_gaps, ret.slot)
                           ELSE ret.pre_gaps

\* a refused add whose candidate came from the gap heap
DriverFailureKeepsTable_Witness ==
    /\ ret.op = "add"
    /\ DriverFailed
    /\ ~ret.minted
    /\ ret.pre_gaps # <<>>

\* C7: when the driver refuses the unmap, remove returns the driver's error, the
\* slot keeps its original (guest address, mapping) in the table and is not pushed
\* onto the gap heap.
C7_UnmapFailureKeepsSlot ==
    (ret.op = "remove" /\ DriverFailed) =>
        /\ ret.res = ret.drv
        /\ ret.slot \in DOMAIN mem_regions
        /\ ret.slot \in DOMAIN live
        /\ mem_regions[ret.slot].guest_addr = live[ret.slot].guest_addr
        /\ mem_regions[ret.slot].mem = live[ret.slot].mem
        /\ mem_slot_gaps = ret.pre_gaps

C7_Witness ==
    /\ ret.op = "remove"
    /\ DriverFailed
    /\ ret.slot \in DOMAIN mem_regions

\* C8: remove of a slot that is not a key of the table fails with ENOENT, calls the
\* driver not at all, and leaves table, gap heap and driver mappings as they were.
C8_RemoveUnknownSlot ==
    (ret.op = "remove" /\ ret.slot \notin DOMAIN ret.pre_regions) =>
        /\ ret.res = "ENOENT"
        /\ ret.drv = "none"
        /\ mem_regions = ret.pre_regions
        /\ mem_slot_gaps = ret.pre_gaps
        /\ driver_ram = ret.pre_ram

C8_Witness ==
    /\ ret.op = "remove"
    /\ ret.slot \notin DOMAIN ret.pre_regions
    /\ ret.pre_regions # <<>>

\* C9: a successful remove of slot s returns the mapping that the add which
\* returned s was given (same host pointer, same size), takes s out of the table
\* and pushes s onto the gap heap.
C9_RemoveReturnsAddedMapping ==
    (ret.op = "remove" /\ ret.res = "Ok") =>
        /\ ret.added # NoLive
        /\ ret.mem.ptr = ret.added.mem.ptr
        /\ ret.mem.size = ret.added.mem.size
        /\ ret.slot \notin DOMAIN mem_regions
        /\ Count(mem_slot_gaps, ret.slot) = Count(ret.pre_gaps, ret.slot) + 1

\* a slot is removed while another region, added in between, is registered
C9_Witness ==
    /\ ret.op = "remove"
    /\ ret.res = "Ok"
    /\ Cardinality(DOMAIN ret.pre_regions) >= 2
    /\ ret.mem \in Mems

\* C10: for each successful add, at most one remove of its slot succeeds, on
\* whichever handle; a remove that finds the slot gone fails with ENOENT, and the
\* driver unmaps the region successfully at most once.
C10_RemovedExactlyOnce ==
    /\ \A s \in DOMAIN unmap_ok : unmap_ok[s] <= 1
    /\ (ret.op = "remove" /\ ret.res = "Ok") =>
           (ret.added # NoLive /\ ret.slot \notin DOMAIN live)
    /\ (ret.op = "remove" /\ ret.res # "Ok" /\ ~DriverFailed) =>
           (ret.res = "ENOENT" /\ ret.slot \notin DOMAIN ret.pre_regions)

\* a clone removes a region while a remove of the same slot waits for the table
\* lock on the original handle: one of the two did not add the region
C10_Witness ==
    /\ ret.op = "remove"
    /\ ret.res = "Ok"
    /\ ret.h # 1
    /\ \E h \in handles \ {ret.h} :
        /\ pc[h] = "remove_lock_regions"
        /\ call[h].slot = ret.slot

\* the slots a VM can number: the static regions take the slots below num_regions
DynamicSlots == num_regions..(num_regions + MaxMem + 1)

\* C11: the slot add chooses is the smallest value of the gap heap when the heap
\* is not empty, and that value leaves the heap; otherwise it is the number of
\* table entries plus the number of static regions.
C11_SlotIsMinGapOrCount ==
    (ret.op = "add" /\ ret.drv # "none") =>
        IF ret.pre_gaps # <<>>
        THEN /\ InHeap(ret.pre_gaps, ret.slot)
             /\ \A i \in 1..Len(ret.pre_gaps) : ret.slot <= ret.pre_gaps[i]
             /\ ret.res = "Ok" =>
                    /\ Len(mem_slot_gaps) = Len(ret.pre_gaps) - 1
                    /\ Count(mem_slot_gaps, ret.slot)
                           = Count(ret.pre_gaps, ret.slot) - 1
        ELSE ret.slot = Cardinality(DOMAIN ret.pre_regions) + Len(GuestMemRegions)

\* an add takes the smaller of two gaps
C11_Witness ==
    /\ ret.op = "add"
    /\ ret.res = "Ok"
    /\ Len(ret.pre_gaps) >= 2

\* C12: when the gap heap holds a slot that an add returned before (removed, not
\* yet reused), a successful add returns a slot no larger than any slot never
\* returned so far, and one that was returned before: the highest slot issued
\* does not grow.
C12_GapReusePreferred ==
    (/\ ret.op = "add"
     /\ ret.res = "Ok"
     /\ \E x \in ret.pre_issued : InHeap(ret.pre_gaps, x)) =>
        /\ \A y \in DynamicSlots \ ret.pre_issued : ret.slot <= y
        /\ ret.slot \in ret.pre_issued

\* a removed slot is reused while a higher slot is still registered
C12_Witness ==
    /\ ret.op = "add"
    /\ ret.res = "Ok"
    /\ \E x \in ret.pre_issued : InHeap(ret.pre_gaps, x)
    /\ \E s \in DOMAIN ret.pre_regions : s > ret.slot

\* C13: whenever no call is inside the table's critical section, no value of the
\* gap heap is a key of the slot table, failed adds included.
C13_GapsDisjointFromTable ==
    regions_lock = 0 =>
        \A i \in 1..Len(mem_slot_gaps) : mem_slot_gaps[i] \notin DOMAIN mem_regions

\* an add has just failed in the driver while another region is registered
C13_Witness ==
    /\ ret.op = "add"
    /\ DriverFailed
    /\ mem_regions # <<>>
    /\ mem_slot_gaps # <<>>
    /\ regions_lock = 0

\* C14: with a region registered at an address, a second add at that address
\* (its range fitting the address width) fails with ENOSPC; once the first slot
\* is removed the add succeeds and
\* returns slot 0.
C14_SecondAddRejectedThenSlotZero ==
    /\ (/\ ret.op = "add"
        /\ ret.guest_addr + ret.mem.size <= AddrMax
        /\ \E s \in DOMAIN ret.pre_regions :
               ret.pre_regions[s].guest_addr = ret.guest_addr) =>
           ret.res = "ENOSPC"
    /\ (/\ ret.op = "add"
        /\ ret.res = "Ok"
        /\ ret.pre_regions = <<>>
        /\ ret.slot \in ret.pre_issued) =>
           ret.slot = 0

\* C15: an add whose guest_addr + size does not fit the address width fails with
\* EOVERFLOW before a slot is chosen or the driver called; the table, the heap
\* and the driver's mappings are as they were.
C15_OverflowRejectedFirst ==
    (ret.op = "add" /\ ret.guest_addr + ret.mem.size > AddrMax) =>
        /\ ret.res = "EOVERFLOW"
        /\ ret.drv = "none"
        /\ ret.slot = None
        /\ mem_regions = ret.pre_regions
        /\ mem_slot_gaps = ret.pre_gaps
        /\ driver_ram = ret.pre_ram

\* the range ends exactly one past the top of the address space, with a region
\* registered and a gap waiting
C15_Witness ==
    /\ ret.op = "add"
    /\ ret.res = "EOVERFLOW"
    /\ ret.guest_addr + ret.mem.size = AddrMax + 1
    /\ mem_regions # <<>>
    /\ mem_slot_gaps # <<>>

\* C16: an add whose range fits the address width and intersects a static range
\* fails with ENOSPC before a slot is chosen or the driver called; the table, the
\* heap and the driver's mappings are as they were.
C16_StaticOverlapRejected ==
    (/\ ret.op = "add"
     /\ ret.guest_addr + ret.mem.size <= AddrMax
     /\ Range(ret.guest_addr, ret.mem.size) \cap StaticAddrs # {}) =>
        /\ ret.res = "ENOSPC"
        /\ ret.drv = "none"
        /\ ret.slot = None
        /\ mem_regions = ret.pre_regions
        /\ mem_slot_gaps = ret.pre_gaps
        /\ driver_ram = ret.pre_ram

\* the range starts on the last address of the static region and runs past it,
\* with a region registered and a gap waiting
C16_Witness ==
    /\ ret.op = "add"
    /\ ret.res = "ENOSPC"
    /\ ret.guest_addr \in StaticAddrs
    /\ ret.guest_addr + ret.mem.size - 1 \notin StaticAddrs
    /\ mem_regions # <<>>
    /\ mem_slot_gaps # <<>>

\* a call of register_ioevent / unregister_ioevent with the one datamatch the
\* backend supports has returned
Registered(op) == ret.op = op /\ ret.datamatch = "AnyLength"

\* C17: an address has at most one event bound: register_ioevent (AnyLength) on
\* a bound address fails with EEXIST and the handle's registry, the original
\* binding included, is as it was.
C17_RegisterBoundAddress ==
    (Registered("register_ioevent") /\ ret.addr \in DOMAIN ret.pre_ioevents) =>
        /\ ret.res = "EEXIST"
        /\ ioevents[ret.h] = ret.pre_ioevents

\* another event is registered at a bound address
C17_Witness ==
    /\ Registered("register_ioevent")
    /\ ret.addr \in DOMAIN ret.pre_ioevents
    /\ ret.pre_ioevents[ret.addr].obj # ret.evt.obj
    /\ ret.res = "EEXIST"

\* the event a dispatch wrote to is the one bound at the address
DispatchSignalsBound ==
    (/\ ret.op = "handle_io_events"
     /\ ret.res = "Ok"
     /\ ret.addr \in DOMAIN ret.pre_ioevents) =>
        /\ ret.written = <<ret.pre_ioevents[ret.addr].obj>>
        /\ event_pending[ret.pre_ioevents[ret.addr].obj]

\* an unregister_ioevent (AnyLength) named an event other than the bound one
Mismatched ==
    /\ Registered("unregister_ioevent")
    /\ ret.addr \in DOMAIN ret.pre_ioevents
    /\ ret.pre_ioevents[ret.addr].obj # ret.evt.obj

\* C18 as claimed: unregister_ioevent on an address bound to another event fails
\* with an error that is not the one returned for an unbound address (ENOENT),
\* and the binding survives, so that a later dispatch signals the bound event.
C18_MismatchDistinctError ==
    /\ Mismatched =>
           /\ ret.res \notin {"Ok", "ENOENT"}
           /\ ioevents[ret.h] = ret.pre_ioevents
    /\ DispatchSignalsBound

\* C18, amended: unregister_ioevent on an address bound to another event fails
\* with ENOENT, the error of an unbound address, and the binding survives, so
\* that a later dispatch signals the bound event.
C18_MismatchKeepsBinding ==
    /\ Mismatched =>
           /\ ret.res = "ENOENT"
           /\ ioevents[ret.h] = ret.pre_ioevents
    /\ DispatchSignalsBound

\* the refused unregister comes after a dispatch to the bound event
C18_Witness ==
    /\ Mismatched
    /\ ret.res = "ENOENT"
    /\ event_pending[ret.pre_ioevents[ret.addr].obj]

\* C19: unregister_ioevent (AnyLength) on an unbound address fails with ENOENT
\* and leaves the registry as it was; Pio(x) and Mmio(x) are different keys.
C19_UnregisterUnbound ==
    /\ (Registered("unregister_ioevent")
            /\ ret.addr \notin DOMAIN ret.pre_ioevents) =>
           /\ ret.res = "ENOENT"
           /\ ioevents[ret.h] = ret.pre_ioevents
    /\ \A x \in {a.addr : a \in IoAddrs} : Pio(x) # Mmio(x)

\* the event is bound at the same number of the other kind
C19_Witness ==
    /\ Registered("unregister_ioevent")
    /\ ret.res = "ENOENT"
    /\ ret.addr \notin DOMAIN ret.pre_ioevents
    /\ \E a \in DOMAIN ret.pre_ioevents :
           /\ a.addr = ret.addr.addr
           /\ ret.pre_ioevents[a].obj = ret.evt.obj

\* C20: register_ioevent and unregister_ioevent with a datamatch other than
\* AnyLength fail with ENOTSUP whatever the address is bound to, and leave the
\* registry as it was.
C20_DatamatchCheckedFirst ==
    (/\ ret.op \in {"register_ioevent", "unregister_ioevent"}
     /\ ret.datamatch # "AnyLength") =>
        /\ ret.res = "ENOTSUP"
        /\ ioevents[ret.h] = ret.pre_ioevents

\* register_ioevent with another datamatch on a bound address
C20_Witness ==
    /\ ret.op = "register_ioevent"
    /\ ret.datamatch # "AnyLength"
    /\ ret.addr \in DOMAIN ret.pre_ioevents
    /\ ret.res = "ENOTSUP"

\* a call on the io-event side left the slot table, the gap heap and the
\* driver's mappings as they were
MemoryUntouched ==
    /\ mem_regions = ret.pre_regions
    /\ mem_slot_gaps = ret.pre_gaps
    /\ driver_ram = ret.pre_ram

\* C21: handle_io_events writes once to the event bound at exactly the address
\* given (kind and number) when the write succeeds, and to no other event; with
\* no event bound there it returns Ok and writes to nothing; either way every
\* registry, the slot table, the gap heap and the driver's mappings are as they
\* were.
C21_DispatchSignalsBoundOnly ==
    ret.op = "handle_io_events" =>
        /\ IF ret.addr \in DOMAIN ret.pre_ioevents
           THEN LET obj == ret.pre_ioevents[ret.addr].obj
                IN  IF ret.res = "Ok"
                    THEN /\ ret.written = <<obj>>
                         /\ event_pending = [ret.pre_pending EXCEPT ![obj] = TRUE]
                    ELSE /\ ret.res \in WriteErrnos
                         /\ ret.written = <<>>
                         /\ event_pending = ret.pre_pending
           ELSE /\ ret.res = "Ok"
                /\ ret.written = <<>>
                /\ event_pending = ret.pre_pending
        /\ ioevents = ret.pre_all
        /\ MemoryUntouched

\* a dispatch signals the event of one address kind while another event, not
\* yet signalled, is bound at the same number of the other kind, and a region
\* is registered
C21_Witness ==
    /\ ret.op = "handle_io_events"
    /\ ret.res = "Ok"
    /\ ret.written # <<>>
    /\ \E a \in DOMAIN ret.pre_ioevents :
           /\ a # ret.addr
           /\ a.addr = ret.addr.addr
           /\ ret.pre_ioevents[a].obj # ret.evt.obj
           /\ ~event_pending[ret.pre_ioevents[a].obj]
    /\ mem_regions # <<>>

\* an unregister_ioevent (AnyLength) named the event bound at the address
Matched ==
    /\ Registered("unregister_ioevent")
    /\ ret.addr \in DOMAIN ret.pre_ioevents
    /\ ret.pre_ioevents[ret.addr].obj = ret.evt.obj

\* a handle's map gains a binding at an address only by a successful
\* register_ioevent at that address through that handle
BoundOnlyByRegister ==
    \A h \in handles, a \in IoAddrs :
        (a \notin DOMAIN ioevents[h] /\ a \in DOMAIN ioevents'[h]) =>
            /\ ret'.op = "register_ioevent"
            /\ ret'.res = "Ok"
            /\ ret'.h = h
            /\ ret'.addr = a

\* C22: unregister_ioevent with the event that was registered at the address
\* succeeds, although the map holds its own clone of it, and leaves the handle
\* with no binding there; until the next successful register_ioevent at that
\* address through the handle, its handle_io_events there write to nothing.
C22_RegisterThenUnregister ==
    /\ [](Matched =>
              /\ ret.res = "Ok"
              /\ ioevents[ret.h] = MapRemove(ret.pre_ioevents, ret.addr))
    /\ []((ret.op = "handle_io_events"
               /\ ret.addr \notin DOMAIN ret.pre_ioevents) =>
              /\ ret.written = <<>>
              /\ event_pending = ret.pre_pending)
    /\ [][BoundOnlyByRegister]_vars

\* the event was registered, signalled by a dispatch, and is now unregistered
\* through the caller's descriptor, not the one the map held
C22_Witness ==
    /\ Matched
    /\ ret.res = "Ok"
    /\ ret.pre_ioevents[ret.addr].fd # ret.evt.fd
    /\ event_pending[ret.evt.obj]
    /\ ret.addr \notin DOMAIN ioevents[ret.h]

\* what a dispatch at ret.addr writes to if it goes by the map evts
WrittenBy(evts) ==
    IF ret.addr \in DOMAIN evts THEN <<evts[ret.addr].obj>> ELSE <<>>

\* C23 as claimed: the registry is shared by every clone, so a successful
\* handle_io_events through any handle writes to what the map of every handle
\* binds at the address, bindings made or removed through another handle after
\* the clone included.
C23_RegistryShared ==
    (ret.op = "handle_io_events" /\ ret.res = "Ok") =>
        \A h \in handles : ret.written = WrittenBy(ret.pre_all[h])

\* C23, amended: each handle has a registry of its own: register_ioevent and
\* unregister_ioevent change the map of the handle they are called on and no
\* other, and a successful handle_io_events goes by the map of its own handle.
C23_RegistryPerHandle ==
    /\ ret.op \in {"register_ioevent", "unregister_ioevent"} =>
           \A h \in handles \ {ret.h} : ioevents[h] = ret.pre_all[h]
    /\ (ret.op = "handle_io_events" /\ ret.res = "Ok") =>
           ret.written = WrittenBy(ret.pre_all[ret.h])

\* a dispatch through one handle writes to nothing at an address that another
\* handle has bound
C23_Witness ==
    /\ ret.op = "handle_io_events"
    /\ ret.res = "Ok"
    /\ ret.written = <<>>
    /\ \E h \in handles \ {ret.h} : ret.addr \in DOMAIN ioevents[h]

\* C24: a successful try_clone yields one new handle on the same slot table and
\* gap heap, bound at exactly the addresses the original is bound at, each to
\* a descriptor of its own for the same event; a failed one returns the error,
\* yields no handle and leaves every registry as it was; either way the slot
\* table, the gap heap and the driver's mappings are as they were.
C24_CloneAllOrNothing ==
    ret.op = "try_clone" =>
        /\ IF ret.res = "Ok"
           THEN /\ ret.slot \notin DOMAIN ret.pre_all
                /\ handles = DOMAIN ret.pre_all \cup {ret.slot}
                /\ DOMAIN ioevents[ret.slot] = DOMAIN ret.pre_ioevents
                /\ \A a \in DOMAIN ret.pre_ioevents :
                       /\ ioevents[ret.slot][a].obj = ret.pre_ioevents[a].obj
                       /\ ioevents[ret.slot][a].fd # ret.pre_ioevents[a].fd
           ELSE /\ ret.res \in CloneErrnos
                /\ handles = DOMAIN ret.pre_all
        /\ \A h \in DOMAIN ret.pre_all : ioevents[h] = ret.pre_all[h]
        /\ MemoryUntouched

\* a clone fails on a handle with two bindings and a registered region
C24_Witness ==
    /\ ret.op = "try_clone"
    /\ ret.res \in CloneErrnos
    /\ Cardinality(DOMAIN ret.pre_ioevents) = 2
    /\ mem_regions # <<>>

\* the call that returned changed nothing: not the slot table, the gap heap or
\* the driver's mappings, no registry, no event, no mapping and no vCPU descriptor
NothingChanged ==
    /\ MemoryUntouched
    /\ ioevents = ret.pre_all
    /\ event_pending = ret.pre_pending
    /\ fd_maps = ret.pre_fd_maps
    /\ vcpu_fds = ret.pre_vcpu_fds

\* C25: check_capability answers false for every capability in every state,
\* calls no driver and changes nothing.
C25_NoCapability ==
    ret.op = "check_capability" =>
        /\ ret.res = "false"
        /\ ret.drv = "none"
        /\ NothingChanged

\* the dirty log is asked about while a region is registered and a gap waits
C25_Witness ==
    /\ ret.op = "check_capability"
    /\ ret.datamatch = "DirtyLog"
    /\ mem_regions # <<>>
    /\ mem_slot_gaps # <<>>

\* C26: handle_inflate and handle_deflate return Ok for every guest address and
\* size in every state and change nothing.
C26_BalloonNoOp ==
    ret.op \in {"handle_inflate", "handle_deflate"} =>
        /\ ret.res = "Ok"
        /\ ret.drv = "none"
        /\ NothingChanged

\* an inflate request reaching past the top of the address space, with a
\* region registered
C26_Witness ==
    /\ ret.op = "handle_inflate"
    /\ ret.guest_addr + ret.mem.size > AddrMax
    /\ mem_regions # <<>>

\* C29: msync_memory_region, add_fd_mapping and remove_mapping, failing or not,
\* leave the slot table, the gap heap and the driver's mappings as they were
\* and call no driver; for a slot that is not in the table they fail, with
\* ENOENT (msync_memory_region) or EINVAL (the other two), and no mapping is
\* touched.
C29_MappingCallsKeepTable ==
    ret.op \in {"msync_memory_region", "add_fd_mapping", "remove_mapping"} =>
        /\ DOMAIN mem_regions = DOMAIN ret.pre_regions
        /\ MemoryUntouched
        /\ ret.drv = "none"
        /\ ret.slot \notin DOMAIN ret.pre_regions =>
               /\ ret.res = IF ret.op = "msync_memory_region"
                            THEN "ENOENT" ELSE "EINVAL"
               /\ fd_maps = ret.pre_fd_maps

\* remove_mapping names a slot that is a gap while another slot is registered
\* and has a file mapped
C29_Witness ==
    /\ ret.op = "remove_mapping"
    /\ ret.res = "EINVAL"
    /\ InHeap(mem_slot_gaps, ret.slot)
    /\ mem_regions # <<>>
    /\ fd_maps # {}

\* C30: create_vcpu leaves the slot table, the gap heap, the driver's mappings
\* and every io-event registry as they were and changes no descriptor of
\* another vCPU; when the tunnel ioctl or one of the two mapping steps fails,
\* after the device was opened, it returns an error and the set of open vCPU
\* descriptors is the one before the call.
C30_CreateVcpuReleasesDescriptor ==
    ret.op = "create_vcpu" =>
        /\ MemoryUntouched
        /\ ioevents = ret.pre_all
        /\ event_pending = ret.pre_pending
        /\ fd_maps = ret.pre_fd_maps
        /\ vcpu_fds \ {ret.slot} = ret.pre_vcpu_fds \ {ret.slot}
        /\ ret.drv \in {"tunnel_failed", "tunnel_map_failed", "io_map_failed"} =>
               /\ ret.res # "Ok"
               /\ vcpu_fds = ret.pre_vcpu_fds
        /\ ret.res = "Ok" <=> ret.slot \in vcpu_fds

\* the io buffer mapping fails for a second vCPU while the first one is open, a
\* region is registered, a slot is a gap and an io event is bound
C30_Witness ==
    /\ ret.op = "create_vcpu"
    /\ ret.drv = "io_map_failed"
    /\ ret.res = "ENOSPC"
    /\ ret.pre_vcpu_fds # {}
    /\ ret.slot \in driver_vcpus
    /\ mem_regions # <<>>
    /\ mem_slot_gaps # <<>>
    /\ ioevents[1] # <<>>

\* an add has returned whose range fits the address width, meets no static
\* range and meets the range of an entry the slot table held when the call took
\* the table lock
OverlapsDynamicOnly ==
    /\ ret.op = "add"
    /\ ret.guest_addr + ret.mem.size <= AddrMax
    /\ Range(ret.guest_addr, ret.mem.size) \cap StaticAddrs = {}
    /\ Range(ret.guest_addr, ret.mem.size) \cap Covered(ret.pre_regions) # {}

HeapValues(heap) == {heap[i] : i \in 1..Len(heap)}

\* C31: whenever the table lock is free, the keys of the slot table and the
\* values of the gap heap are disjoint, no value is in the heap twice, and
\* together they are the interval from num_regions up to num_regions + |table|
\* + |heap|, exclusive; every slot an add returns is at least num_regions, and a
\* freshly minted slot is neither in the table nor in the heap the add found.
C31_DenseNumbering ==
    /\ regions_lock = 0 =>
           /\ HeapValues(mem_slot_gaps) \cap DOMAIN mem_regions = {}
           /\ Cardinality(HeapValues(mem_slot_gaps)) = Len(mem_slot_gaps)
           /\ HeapValues(mem_slot_gaps) \cup DOMAIN mem_regions
                  = num_regions..(num_regions + Cardinality(DOMAIN mem_regions)
                                      + Len(mem_slot_gaps) - 1)
    /\ (ret.op = "add" /\ ret.res = "Ok") => ret.slot >= num_regions
    /\ (ret.op = "add" /\ ret.minted) =>
           /\ ret.slot \notin DOMAIN ret.pre_regions
           /\ ~InHeap(ret.pre_gaps, ret.slot)

\* an add that reused a gap failed in the driver and the gap is back in the
\* heap, below a slot that is registered
C31_Witness ==
    /\ ret.op = "add"
    /\ DriverFailed
    /\ ~ret.minted
    /\ InHeap(mem_slot_gaps, ret.slot)
    /\ \E s \in DOMAIN mem_regions : s > ret.slot
    /\ regions_lock = 0

\* the heap that holds exactly the slots of S
RECURSIVE HeapOf(_)
HeapOf(S) ==
    IF S = {} THEN <<>>
    ELSE LET x == CHOOSE y \in S : TRUE IN HeapPush(HeapOf(S \ {x}), x)

\* the run that makes the successful calls of this run, in the order they
\* returned, and none of the failed ones, as it stands before the add that has
\* just returned Ok: its table holds the slots returned and not yet removed,
\* its heap the slots returned, removed and not yet returned again
RefRegions == [s \in DOMAIN live \ {ret.slot} |-> live[s]]

RefGaps == HeapOf(ret.pre_issued \ DOMAIN RefRegions)

\* C32: a successful add returns the slot the same add returns in the run made
\* of the successful calls alone, so two runs with the same successful calls
\* return the same slots whatever failed calls lie in between; and a failed add
\* or remove leaves the keys of the slot table as they were.
C32_FailedCallsLeaveNumbering ==
    /\ (ret.op = "add" /\ ret.res = "Ok") =>
           ret.slot = ChooseSlot(RefGaps, RefRegions)
    /\ (ret.op \in {"add", "remove"} /\ ret.res # "Ok") =>
           DOMAIN mem_regions = DOMAIN ret.pre_regions

\* the add found in the heap a slot that no add had returned before: an earlier
\* add failed in the driver with a freshly minted slot
C32_Witness ==
    /\ ret.op = "add"
    /\ ret.res = "Ok"
    /\ ret.pre_gaps # RefGaps
    /\ ~ret.minted
    /\ ret.slot \notin ret.pre_issued
    /\ mem_regions # <<>>

\* the prefetchable BAR ranges behind the bridge
PrefBars == {i \in 1..Len(bar_ranges) : bar_ranges[i].prefetchable}

\* the lowest address of the BAR ranges of the set bars
LowestAddr(bars) ==
    CHOOSE a \in {bar_ranges[i].addr : i \in bars} :
        \A i \in bars : a <= bar_ranges[i].addr

\* x rounded up to the next 1MB boundary
RoundUp(x) ==
    ((x + BR_WINDOW_ALIGNMENT - 1) \div BR_WINDOW_ALIGNMENT) * BR_WINDOW_ALIGNMENT

\* C33: on a bridge with children whose prefetchable BAR ranges start off a 1MB
\* boundary, configure_bridge_window writes a window, its prefetchable base is
\* the lowest prefetchable BAR address rounded up to 1MB, and the
\* non-prefetchable base, when there is a non-prefetchable BAR, is the lowest
\* such address rounded up to 1MB.
C33_PrefBaseRoundedUp ==
    (/\ bridge_window.status \in {"written", "panic"}
     /\ PrefBars # {}
     /\ LowestAddr(PrefBars) % BR_WINDOW_ALIGNMENT # 0) =>
        /\ bridge_window.status = "written"
        /\ bridge_window.pref_window_base = RoundUp(LowestAddr(PrefBars))
        /\ (1..Len(bar_ranges)) \ PrefBars # {} =>
               bridge_window.window_base
                   = RoundUp(LowestAddr((1..Len(bar_ranges)) \ PrefBars))

====
